---- MODULE Spec2Model ----
(***************************************************************************)
(* Model of src/index.js: a Discord bot that relays "!droid <text>" to the *)
(* Gemini completion API (getResponse, with a bounded retry loop) and      *)
(* keeps a rolling per-channel history (conversationHistory).              *)
(*                                                                         *)
(* Every invocation of the messageCreate callback runs in a frame h[p].    *)
(* JavaScript runs a callback without interruption up to its next await,   *)
(* so one action is the code between two suspension points.  The two       *)
(* awaits that follow a resolved fetch (response.text(), response.json())  *)
(* touch no shared state and are folded into the step that resolves the    *)
(* request; a failure to read or parse the body is a transport exception   *)
(* of that attempt.                                                        *)
(*                                                                         *)
(* Spec is the program under messages of every kind on two channels.       *)
(* ConvSpec is the same program in one conversation: prompts on one        *)
(* channel, answered with texts at the length limit of a reply and with    *)
(* failures, over more calls with the credential set.  FairConvSpec adds   *)
(* that requests settle and timers fire.                                   *)
(***************************************************************************)
EXTENDS Integers, Sequences, FiniteSets, TLC

(* ------------------------------ bounds --------------------------------- *)
\* completion calls in one run when the credential is unset (none of them
\* goes to the transport)
MaxCalls == 6
\* completion calls in one run when the credential is set (each makes up to
\* MAX_RETRIES transport attempts)
MaxRequests == 1
\* completion calls of one conversation (the one-channel specification)
MaxTurns == 2

(* ------------------------- program constants --------------------------- *)
BOT_PREFIX == "!droid"
MAX_HISTORY_TURNS == 5
MAX_RETRIES == 3

(* ----------------------------- JS values ------------------------------- *)
\* A JavaScript value is a tagged record, so that values of different types
\* can be told apart without comparing them.
Undefined == [t |-> "undefined"]
Null == [t |-> "null"]
Str(s) == [t |-> "string", s |-> s]
Arr(a) == [t |-> "array", a |-> a]
Obj(f) == [t |-> "object", f |-> f]
\* a thrown Error with its message
Thrown(m) == [t |-> "throw", s |-> m]

Nullish(v) == v.t \in {"undefined", "null"}

\* JS truthiness of the values that occur: undefined, null and "" are falsy
Truthy(v) ==
    /\ ~Nullish(v)
    /\ (v.t = "string" => v.s # "")

\* v.name : reading a property of undefined or null throws a TypeError
Prop(v, name) ==
    IF v.t = "throw" THEN v
    ELSE IF Nullish(v)
    THEN Thrown("Cannot read properties of " \o v.t \o " (reading '" \o name \o "')")
    ELSE IF v.t = "object" /\ name \in DOMAIN v.f THEN v.f[name]
    ELSE Undefined

\* v?.name
OptProp(v, name) ==
    IF v.t = "throw" THEN v
    ELSE IF Nullish(v) THEN Undefined
    ELSE Prop(v, name)

\* v?.[0]
OptFirst(v) ==
    IF v.t = "throw" THEN v
    ELSE IF Nullish(v) THEN Undefined
    ELSE IF v.t = "array" /\ Len(v.a) > 0 THEN v.a[1]
    ELSE Undefined

(* ------------------------------ strings -------------------------------- *)
Min(a, b) == IF a < b THEN a ELSE b
Max(a, b) == IF a < b THEN b ELSE a

\* s.substring(from, to) for 0 <= from <= to
Substring(s, from, to) == SubSeq(s, Min(from, Len(s)) + 1, Min(to, Len(s)))

\* s.slice(from) for from >= 0
StrSlice(s, from) == SubSeq(s, Min(from, Len(s)) + 1, Len(s))

StartsWith(s, prefix) ==
    /\ Len(s) >= Len(prefix)
    /\ SubSeq(s, 1, Len(prefix)) = prefix

RECURSIVE TrimStart(_)
TrimStart(s) ==
    IF Len(s) > 0 /\ SubSeq(s, 1, 1) = " "
    THEN TrimStart(SubSeq(s, 2, Len(s)))
    ELSE s

RECURSIVE TrimEnd(_)
TrimEnd(s) ==
    IF Len(s) > 0 /\ SubSeq(s, Len(s), Len(s)) = " "
    THEN TrimEnd(SubSeq(s, 1, Len(s) - 1))
    ELSE s

\* (a faulty variant: the remainder is not trimmed)
Trim_None(s) == s

\* s.trim()
Trim(s) == TrimEnd(TrimStart(s))

RECURSIVE Repeat(_, _)
Repeat(s, n) == IF n = 0 THEN "" ELSE s \o Repeat(s, n - 1)

(* ------------------------------- inputs -------------------------------- *)
Keys == {"c1", "c2"}

\* message.content of an inbound message
Contents == {"!droid  a ", "!droid", "!droid  ", "hello"}

\* process.env.GEMINI_API_KEY: unset, or set
Credentials == {Undefined, Str("k")}

LongMessage == Repeat("connect ECONNREFUSED ", 5)
LongBody == Repeat("quota exceeded; ", 6)

\* JSON bodies of a 200 response, as response.json() parses them
TextBody(text) ==
    Obj([candidates |->
        Arr(<<Obj([content |-> Obj([parts |-> Arr(<<Obj([text |-> Str(text)])>>)])])>>)])

\* the bodies without a usable text: an empty text, no candidate, JSON null
NoTextBodies == { TextBody(""), Obj([candidates |-> Arr(<< >>)]), Null }

NonEmptyTexts == {"hi"}

OkBodies == { TextBody(t) : t \in NonEmptyTexts } \cup NoTextBodies

\* What one fetch() attempt can come to: an exception (fetch rejects, or the
\* body cannot be read or parsed), or a response with a status and a body.
TransportResults ==
    { [kind |-> "exception", message |-> m] : m \in {"fetch failed", LongMessage} }
    \cup { [kind |-> "response", status |-> 200, json |-> b] : b \in OkBodies }
    \cup { [kind |-> "response", status |-> 429, errorBody |-> "slow down"] }
    \cup { [kind |-> "response", status |-> 400, errorBody |-> "bad"],
           [kind |-> "response", status |-> 500, errorBody |-> LongBody] }

\* Texts at the limit of a Discord message (2000 characters) and beyond it
FullText == Repeat("0123456789", 200)
LongText == FullText \o "!"

\* The transport of a conversation: texts at and beyond the limit, and one
\* result of each failing kind
ConvResults ==
    { [kind |-> "response", status |-> 200, json |-> TextBody(t)] :
          t \in {FullText, LongText} }
    \cup { [kind |-> "response", status |-> 200, json |-> TextBody("")],
           [kind |-> "response", status |-> 429, errorBody |-> "slow down"],
           [kind |-> "response", status |-> 500, errorBody |-> LongBody],
           [kind |-> "exception", message |-> "fetch failed"] }

\* Whether delivery of a reply (message.reply) or of the typing indicator
\* (sendTyping) succeeds
Deliveries == {"delivered", "rejected"}

\* Math.random() * 1000, in whole milliseconds: any value of [0, 1000)
Jitters == {0, 999}

(* ----------------------------- getResponse ----------------------------- *)
\* response.ok
ResponseOk(status) == status >= 200 /\ status <= 299

\* (a faulty variant: the last attempt is retried as well)
ShouldRetry_Always(status, attempt) == status = 429

\* (a faulty variant: the status is not looked at)
ShouldRetry_AnyStatus(status, attempt) == attempt < MAX_RETRIES - 1

\* the condition of line 69: a rate-limited attempt that is not the last
ShouldRetry(status, attempt) == status = 429 /\ attempt < MAX_RETRIES - 1

\* line 71, in milliseconds
RECURSIVE Pow2(_)
Pow2(n) == IF n = 0 THEN 1 ELSE 2 * Pow2(n - 1)

\* (a faulty variant: the delay does not grow with the attempt)
BackoffDelay_Fixed(attempt, jitter) == 1000 + jitter

\* the delay of line 71
BackoffDelay(attempt, jitter) == Pow2(attempt) * 1000 + jitter

\* the message of the Error thrown at line 78
RequestFailedMessage(status, errorBody) ==
    "API Request failed with status " \o ToString(status) \o " : " \o errorBody

\* (a faulty variant: the message is not cut)
CatchReturn_Uncut(message) == "Error: " \o message \o ", Ceasing."

\* the catch block's return value, line 99
CatchReturn(message) == "Error: " \o Substring(message, 0, 80) \o ", Ceasing."

\* line 83: result.candidates?.[0]?.content?.parts?.[0]?.text
ExtractText(result) ==
    OptProp(OptFirst(OptProp(OptProp(OptFirst(Prop(result, "candidates")),
                                     "content"), "parts")), "text")

\* (a faulty variant: the test of line 85 is inverted)
TextReturn_Inverted(result) ==
    LET text == ExtractText(result)
    IN  IF text.t = "throw" THEN CatchReturn(text.s)
        ELSE IF ~Truthy(text) THEN (IF text.t = "string" THEN text.s ELSE "undefined")
        ELSE "No comment."

\* lines 82-93, inside the try: the value returned for a parsed 200 body
TextReturn(result) ==
    LET text == ExtractText(result)
    IN  IF text.t = "throw" THEN CatchReturn(text.s)
        ELSE IF Truthy(text) THEN text.s
        ELSE "No comment."

MissingKeyReturn == "ERROR: API key missing"
ExhaustedReturn == "All retries failed."

\* The outcome of a finished call, by its return site: the source line of the
\* return statement, and for the catch block (line 99) what was caught there
\* (the Error of line 78, an exception of the transport, a fault of line 83).
Outcome(site) ==
    CASE site = "33" -> "MissingCredential"
      [] site = "87" -> "Success"
      [] site = "92" -> "NoContent"
      [] site = "99:status" -> "RequestFailed"
      [] site = "99:exception" -> "TransportError"
      [] site = "99:fault" -> "TransportError"
      [] site = "104" -> "ExhaustedRetries"

(* ------------------------------- state --------------------------------- *)
VARIABLES
    GEMINI_API_KEY,       \* the credential read at start-up (line 7)
    conversationHistory,  \* the Map of line 12: channel id -> array of turns
    h,                    \* the frames of the messageCreate callback
    writes,               \* per key, the conversationHistory.set calls so far, in order
    pending,              \* the kinds of reply in flight that no frame awaits
    unhandled             \* the reply whose rejection nothing handled, if any

vars == <<GEMINI_API_KEY, conversationHistory, h, writes, pending, unhandled>>

\* The i-th write of a key is recorded as the number of writes the key had seen
\* when the writer read the history.  ver[key] is the number of writes of the
\* key so far.
ver == [k \in DOMAIN writes |-> Len(writes[k])]

\* The frames of the messageCreate callback that may be suspended at once
Handlers == {1, 2}

\* A turn {role, parts: [{text}]}; id numbers the pairs of a key in the order
\* they are written: the turns of the i-th write carry i (it tells apart turns
\* of equal text, the code never reads it).
Turn(role, text, id) == [role |-> role, text |-> text, id |-> id]

NoMessage == [channelId |-> "", content |-> "", bot |-> FALSE]
NoResult == [kind |-> "none"]

\* The frame of one invocation: the callback's locals (message, currentHistory,
\* userPrompt, responseText), where the invocation is suspended (pc), the text
\* it handed to message.reply and awaits (reply), its read and write of the
\* history (rdVer, wrVer: the value of ver[key] at the read, and after the
\* write; the pair it appended carries wrVer as its id).  While its
\* getResponse call runs, and until the callback resumes with the call's
\* result, the frame also holds the call: the loop counter (attempt), the
\* contents of the request payload (payload), the delays of its backoff
\* waits, the result of its last attempt (lastResult), its events in order
\* (log: "fetch", the result of each attempt, "wait") and the return site.
\* A frame whose callback has returned is idle again: a reply it handed over
\* without awaiting is in pending.
Frame(message) ==
    [ pc |-> "idle", message |-> message, currentHistory |-> << >>,
      userPrompt |-> "", attempt |-> 0, responseText |-> "", site |-> "",
      lastResult |-> NoResult, log |-> << >>, delays |-> << >>,
      payload |-> << >>, reply |-> "", rdVer |-> 0, wrVer |-> 0 ]

\* conversationHistory.get(key)
MapGet(m, key) == IF key \in DOMAIN m THEN Arr(m[key]) ELSE Undefined

\* (a faulty variant: the value is stored under every key of the map)
MapSet_AllKeys(m, key, value) == [k \in DOMAIN m \cup {key} |-> value]

\* conversationHistory.set(key, value)
MapSet(m, key, value) ==
    [k \in DOMAIN m \cup {key} |-> IF k = key THEN value ELSE m[k]]

\* (a faulty variant: an unseen key reads as a history with an empty turn)
ReadHistory_Placeholder(m, key) ==
    LET v == MapGet(m, key) IN IF Truthy(v) THEN v.a ELSE << Turn("user", "", 0) >>

\* line 120: conversationHistory.get(channelID) || []
ReadHistory(m, key) ==
    LET v == MapGet(m, key) IN IF Truthy(v) THEN v.a ELSE << >>

\* (a faulty variant: the head is kept, not the tail)
ArrSlice_Head(a, start) == SubSeq(a, 1, Len(a) - Min(start, Len(a)))

\* array.slice(start) for start >= 0
ArrSlice(a, start) == SubSeq(a, Min(start, Len(a)) + 1, Len(a))

\* (a faulty variant: the slice keeps one turn less than the capacity)
TrimHistory_OneShort(updatedHistory) ==
    LET maxMessages == MAX_HISTORY_TURNS * 2
    IN  IF Len(updatedHistory) > maxMessages
        THEN ArrSlice(updatedHistory, Len(updatedHistory) - maxMessages + 1)
        ELSE updatedHistory

\* (a faulty variant: the slice is made and not assigned)
TrimHistory_Dropped(updatedHistory) == updatedHistory

\* lines 138-142: keep the last MAX_HISTORY_TURNS * 2 turns
TrimHistory(updatedHistory) ==
    LET maxMessages == MAX_HISTORY_TURNS * 2
    IN  IF Len(updatedHistory) > maxMessages
        THEN ArrSlice(updatedHistory, Len(updatedHistory) - maxMessages)
        ELSE updatedHistory

\* (a faulty variant: the pair of a failed call is not stored)
UpdatedHistory_SkipErrors(f, id) ==
    IF StartsWith(f.responseText, "Error") \/ StartsWith(f.responseText, "ERROR")
    THEN TrimHistory(f.currentHistory)
    ELSE TrimHistory(f.currentHistory
                     \o << Turn("user", f.userPrompt, id),
                           Turn("model", f.responseText, id) >>)

\* (a faulty variant: the history is read again when the pair is appended)
UpdatedHistory_Reread(f, id) ==
    TrimHistory(ReadHistory(conversationHistory, f.message.channelId)
                \o << Turn("user", f.userPrompt, id),
                      Turn("model", f.responseText, id) >>)

\* lines 134-142: the history that line 144 stores
UpdatedHistory(f, id) ==
    TrimHistory(f.currentHistory
                \o << Turn("user", f.userPrompt, id),
                      Turn("model", f.responseText, id) >>)

\* lines 38-45: the contents of the request payload
Payload(f) == f.currentHistory \o << Turn("user", f.userPrompt, 0) >>

\* (a faulty variant: the text is handed over as it is)
FormatReply_Uncut(responseText) == responseText

\* lines 147-150: the text handed to message.reply
FormatReply(responseText) ==
    IF Len(responseText) > 2000
    THEN Substring(responseText, 0, 1980) \o " yada yada"
    ELSE responseText

\* line 125 (the source's backquotes around the usage pattern are left out)
UsageReply == "No message detected. Use " \o BOT_PREFIX \o " [message]."
RuntimeErrorReply == "Runtime error occured beep boop."

\* the replies that are handed to message.reply and not awaited
ReplyKinds == {"usage", "runtime"}

Init ==
    /\ GEMINI_API_KEY \in Credentials
    /\ conversationHistory = << >>
    /\ h = [p \in Handlers |-> Frame(NoMessage)]
    /\ writes = [k \in Keys |-> << >>]
    /\ pending = {}
    /\ unhandled = "none"

Free(p) == h[p].pc = "idle"

\* pairs stored so far, over all keys
RECURSIVE Sum(_, _)
Sum(f, S) == IF S = {} THEN 0 ELSE LET x == CHOOSE x \in S : TRUE
                                   IN  f[x] + Sum(f, S \ {x})
Appends == Sum(ver, Keys)

\* A new completion call may start while the calls finished and under way are
\* fewer than n, the bound of the run.
Budget == IF Truthy(GEMINI_API_KEY) THEN MaxRequests ELSE MaxCalls
CanCall(n) == Appends + Cardinality({q \in Handlers : ~Free(q)}) < n

Idle == Frame(NoMessage)

\* The process runs until a rejection leaves the callback unhandled: Node
\* then raises it as an uncaught exception and the process ends.
Running == unhandled = "none"

\* message.reply(text) is called and its promise is not awaited
HandOver(kind) == pending' = pending \cup {kind}

\* lines 55-62: the head of the retry loop; a pass issues a fetch that carries
\* the payload of lines 38-50
LoopHead(f, attempt) ==
    IF attempt < MAX_RETRIES
    THEN [f EXCEPT !.pc = "fetch", !.attempt = attempt, !.log = Append(@, "fetch"),
                   !.payload = Payload(f)]
    ELSE [f EXCEPT !.pc = "returned", !.attempt = attempt, !.site = "104",
                   !.responseText = ExhaustedReturn]

\* (a faulty variant: the credential is not checked)
EnterGetResponse_Unchecked(f) == LoopHead(f, 0)

\* lines 28-34, then the loop
EnterGetResponse(f) ==
    IF ~Truthy(GEMINI_API_KEY)
    THEN [f EXCEPT !.pc = "returned", !.site = "33", !.responseText = MissingKeyReturn]
    ELSE LoopHead(f, 0)

\* lines 112-129: a message arrives and the callback runs to its first await,
\* or returns: at once (a bot's message, a message without the prefix), or
\* with the promise of the usage reply (line 125, outside the try block)
Receive(p, channelId, content, bot) ==
    /\ Running
    /\ LET currentHistory == ReadHistory(conversationHistory, channelId)
           userPrompt == Trim(StrSlice(content, Len(BOT_PREFIX)))
           triggered == ~bot /\ StartsWith(content, BOT_PREFIX)
           called == triggered /\ userPrompt # ""
           f == Frame([channelId |-> channelId, content |-> content, bot |-> bot])
       IN  /\ called => /\ Free(p)
                        /\ \A q \in Handlers : q < p => ~Free(q)
           /\ ~called => \A q \in Handlers : p <= q
           /\ IF triggered /\ ~called THEN HandOver("usage") ELSE UNCHANGED pending
           /\ h' = IF ~called THEN h
                   ELSE [h EXCEPT ![p] =
                            [f EXCEPT !.pc = "typing",
                                      !.currentHistory = currentHistory,
                                      !.rdVer = ver[channelId],
                                      !.userPrompt = userPrompt]]
    /\ UNCHANGED <<GEMINI_API_KEY, conversationHistory, writes, unhandled>>

\* The delivery of a reply that no frame awaits settles.  The usage reply's
\* promise is the callback's own result (line 125), the runtime-error reply's
\* promise is dropped (line 155): a rejection of either is handled nowhere.
\* (more: whether another reply of the kind stays in flight.)
PendingResolve(kind, d, more) ==
    /\ Running
    /\ kind \in pending
    /\ pending' = IF more THEN pending ELSE pending \ {kind}
    /\ unhandled' = IF d = "rejected" THEN kind ELSE unhandled
    /\ UNCHANGED <<GEMINI_API_KEY, conversationHistory, h, writes>>

\* (a faulty variant: the catch block logs the error and says nothing)
HandlerCatch_Silent(p) ==
    /\ pending' = pending
    /\ h' = [h EXCEPT ![p] = Idle]

\* lines 152-156: the handler's catch block hands the runtime-error reply to
\* message.reply, does not await it, and the callback returns
HandlerCatch(p) ==
    /\ HandOver("runtime")
    /\ h' = [h EXCEPT ![p] = Idle]

\* lines 129-131: sendTyping settles; getResponse runs to its first await
TypingResolve(p, d) ==
    /\ Running
    /\ h[p].pc = "typing"
    /\ IF d = "rejected"
       THEN HandlerCatch(p)
       ELSE h' = [h EXCEPT ![p] = EnterGetResponse(h[p])] /\ UNCHANGED pending
    /\ UNCHANGED <<GEMINI_API_KEY, conversationHistory, writes, unhandled>>

\* lines 58-100: the request of this attempt settles
AttemptResult(f, r, jitter) ==
    LET g == [f EXCEPT !.lastResult = r]
    IN  IF r.kind = "exception"
        THEN [g EXCEPT !.pc = "returned", !.site = "99:exception",
                       !.log = Append(@, "exception"),
                       !.responseText = CatchReturn(r.message)]
        ELSE IF ~ResponseOk(r.status)
        THEN IF ShouldRetry(r.status, f.attempt)
             THEN [g EXCEPT !.pc = "backoff",
                            !.log = @ \o <<ToString(r.status), "wait">>,
                            !.delays = Append(@, BackoffDelay(f.attempt, jitter))]
             ELSE [g EXCEPT !.pc = "returned", !.site = "99:status",
                            !.log = Append(@, ToString(r.status)),
                            !.responseText =
                                CatchReturn(RequestFailedMessage(r.status, r.errorBody))]
        ELSE LET text == ExtractText(r.json)
             IN  [g EXCEPT !.pc = "returned",
                           !.site = IF text.t = "throw" THEN "99:fault"
                                    ELSE IF Truthy(text) THEN "87" ELSE "92",
                           !.log = Append(@, ToString(r.status)),
                           !.responseText = TextReturn(r.json)]

FetchResolve(p, r, jitter) ==
    /\ Running
    /\ h[p].pc = "fetch"
    /\ h' = [h EXCEPT ![p] = AttemptResult(h[p], r, jitter)]
    /\ UNCHANGED <<GEMINI_API_KEY, conversationHistory, writes, pending, unhandled>>

\* (a faulty variant: the timer fires and the loop does not go on)
TimerFire_Lost(p) ==
    /\ Running
    /\ h[p].pc = "backoff"
    /\ UNCHANGED vars

\* lines 73-74, 55: the backoff timer fires; continue with the next pass
TimerFire(p) ==
    /\ Running
    /\ h[p].pc = "backoff"
    /\ h' = [h EXCEPT ![p] = LoopHead(h[p], h[p].attempt + 1)]
    /\ UNCHANGED <<GEMINI_API_KEY, conversationHistory, writes, pending, unhandled>>

\* lines 131-150: getResponse has returned; store the pair, hand over the reply
AppendAndReply(p) ==
    /\ Running
    /\ h[p].pc = "returned"
    /\ LET key == h[p].message.channelId
       IN  /\ conversationHistory' =
                  MapSet(conversationHistory, key, UpdatedHistory(h[p], ver[key] + 1))
           /\ writes' = [writes EXCEPT ![key] = Append(@, h[p].rdVer)]
           /\ h' = [h EXCEPT ![p] =
                  [Frame(h[p].message) EXCEPT
                      !.pc = "reply",
                      !.currentHistory = h[p].currentHistory,
                      !.userPrompt = h[p].userPrompt,
                      !.responseText = h[p].responseText,
                      !.rdVer = h[p].rdVer,
                      !.wrVer = ver[key] + 1,
                      !.reply = FormatReply(h[p].responseText)]]
    /\ UNCHANGED <<GEMINI_API_KEY, pending, unhandled>>

\* lines 147-156: delivery of the awaited reply settles; a rejection is caught
ReplyResolve(p, d) ==
    /\ Running
    /\ h[p].pc = "reply"
    /\ IF d = "rejected"
       THEN HandlerCatch(p)
       ELSE h' = [h EXCEPT ![p] = Idle] /\ UNCHANGED pending
    /\ UNCHANGED <<GEMINI_API_KEY, conversationHistory, writes, unhandled>>

\* a message arrives; it starts a call only within the run's bound
Arrive(p, channelId, content, bot) ==
    /\ Receive(p, channelId, content, bot)
    /\ Free(p) /\ ~Free(p)' => CanCall(Budget)

Next ==
    \/ \E p \in Handlers :
        \/ \E k \in Keys, c \in Contents, b \in BOOLEAN : Arrive(p, k, c, b)
        \/ \E d \in Deliveries : TypingResolve(p, d)
        \/ \E r \in TransportResults, j \in Jitters : FetchResolve(p, r, j)
        \/ TimerFire(p)
        \/ AppendAndReply(p)
        \/ \E d \in Deliveries : ReplyResolve(p, d)
    \/ \E kind \in ReplyKinds, d \in Deliveries, more \in BOOLEAN :
           PendingResolve(kind, d, more)

Spec == Init /\ [][Next]_vars

\* One conversation: people write prompts on one channel, at most MaxTurns
\* times, and the service answers with long texts and failures (the backoff
\* delays are taken without their random part).
ConvKey == "c1"

\* the texts that start a completion call
Prompts ==
    { c \in Contents :
          StartsWith(c, BOT_PREFIX) /\ Trim(StrSlice(c, Len(BOT_PREFIX))) # "" }

\* a person writes on the channel, within the conversation's bound
ConvArrive(p, content) ==
    /\ Receive(p, ConvKey, content, FALSE)
    /\ Free(p) /\ ~Free(p)' => CanCall(MaxTurns)

ConvNext ==
    \/ \E p \in Handlers :
        \/ \E c \in Prompts : ConvArrive(p, c)
        \/ \E d \in Deliveries : TypingResolve(p, d)
        \/ \E r \in ConvResults : FetchResolve(p, r, 0)
        \/ TimerFire(p)
        \/ AppendAndReply(p)
        \/ \E d \in Deliveries : ReplyResolve(p, d)
    \/ \E kind \in ReplyKinds, d \in Deliveries, more \in BOOLEAN :
           PendingResolve(kind, d, more)

ConvSpec == Init /\ [][ConvNext]_vars

\* The transport settles every request (the promise of fetch resolves or
\* rejects) and the event loop fires every timer: what the awaits of lines 58
\* and 73 wait for comes about, for as long as the process runs.
Settles(p) == \E r \in ConvResults : FetchResolve(p, r, 0)

FairConvSpec ==
    ConvSpec /\ \A p \in Handlers : WF_vars(Settles(p)) /\ WF_vars(TimerFire(p))

(* ------------------------------ the claims ----------------------------- *)
IsResult(e) == e \notin {"fetch", "wait"}

\* the results of a call's attempts, in order
Results(log) == SelectSeq(log, IsResult)

IsFetch(e) == e = "fetch"
IsWait(e) == e = "wait"

\* the transport attempts and the backoff waits of a call
Attempts(log) == Len(SelectSeq(log, IsFetch))
Waits(log) == Len(SelectSeq(log, IsWait))

\* the completion call of frame p has returned and the callback has not resumed
Returned(p) == h[p].pc = "returned"

AllRateLimited(log) ==
    /\ Results(log) # << >>
    /\ \A i \in DOMAIN Results(log) : Results(log)[i] = "429"

\* C1: a call whose every attempt is answered with status 429 makes exactly 3
\* transport attempts and returns the ExhaustedRetries outcome ("All retries
\* failed."), not a RequestFailed or TransportError outcome.
C1_RateLimitedCallExhausts ==
    \A p \in Handlers :
        Returned(p) /\ AllRateLimited(h[p].log) =>
            /\ Attempts(h[p].log) = MAX_RETRIES
            /\ Outcome(h[p].site) = "ExhaustedRetries"
            /\ h[p].responseText = ExhaustedReturn

\* C2: no stored history is ever longer than 2 * MAX_HISTORY_TURNS turns.
C2_HistoryBounded ==
    \A k \in DOMAIN conversationHistory :
        Len(conversationHistory[k]) <= 2 * MAX_HISTORY_TURNS

\* a full history whose oldest pair has been evicted
C2_Witness ==
    \E k \in DOMAIN conversationHistory :
        /\ Len(conversationHistory[k]) = 2 * MAX_HISTORY_TURNS
        /\ conversationHistory[k][1].id = 2
        /\ ver[k] = MAX_HISTORY_TURNS + 1

\* the pair frame q appends: its prompt and the call's result
NewPair(q) ==
    << Turn("user", h[q].userPrompt, h[q].wrVer),
       Turn("model", h[q].responseText, h[q].wrVer) >>

\* frame q has stored its pair and nothing has been stored for its key since
JustAppended(q) ==
    /\ h[q].pc = "reply"
    /\ h[q].wrVer = ver[h[q].message.channelId]

\* C3: an append to a history H stores the last min(Len(H) + 2, 2 *
\* MAX_HISTORY_TURNS) turns of H followed by the new pair, in their order; the
\* turns evicted are the oldest, a whole number of pairs.
C3_AppendKeepsNewestTurns ==
    \A q \in Handlers :
        JustAppended(q) =>
            LET full == h[q].currentHistory \o NewPair(q)
                n == Min(Len(h[q].currentHistory) + 2, 2 * MAX_HISTORY_TURNS)
                stored == conversationHistory[h[q].message.channelId]
            IN  /\ Len(stored) = n
                /\ \A i \in 1..n : stored[i] = full[Len(full) - n + i]
                /\ (Len(full) - n) % 2 = 0

\* an append to a full history
C3_Witness ==
    \E q \in Handlers :
        /\ JustAppended(q)
        /\ Len(h[q].currentHistory) = 2 * MAX_HISTORY_TURNS

\* C4: a call answered 429, 429, then 200 with a non-empty text returns
\* Success with that text after exactly 3 attempts and 2 waits, each wait
\* between two attempts.
C4_RetryThenSuccess ==
    \A p \in Handlers :
        Returned(p) /\ Results(h[p].log) = <<"429", "429", "200">> =>
            \A t \in NonEmptyTexts :
                h[p].lastResult.json = TextBody(t) =>
                    /\ Outcome(h[p].site) = "Success"
                    /\ h[p].responseText = t
                    /\ h[p].log = <<"fetch", "429", "wait", "fetch", "429", "wait",
                                    "fetch", "200">>
                    /\ Len(h[p].delays) = 2

C4_Witness ==
    \E p \in Handlers :
        /\ Returned(p)
        /\ Results(h[p].log) = <<"429", "429", "200">>
        /\ h[p].lastResult.json \in { TextBody(t) : t \in NonEmptyTexts }

\* the call of frame p ended at the attempt whose result is its last one:
\* its only waits are those before that attempt
EndedAtLastResult(p) ==
    /\ Returned(p)
    /\ Attempts(h[p].log) = h[p].attempt + 1
    /\ Waits(h[p].log) = h[p].attempt
    /\ Len(Results(h[p].log)) = h[p].attempt + 1

\* C5: an attempt that receives a non-success status other than 429 ends the
\* call with a RequestFailed outcome that carries the status; no wait and no
\* attempt follows.
C5_OtherStatusIsTerminal ==
    \A p \in Handlers :
        LET r == h[p].lastResult
        IN  r.kind = "response" /\ ~ResponseOk(r.status) /\ r.status # 429 =>
                /\ EndedAtLastResult(p)
                /\ h[p].log[Len(h[p].log)] = ToString(r.status)
                /\ Outcome(h[p].site) = "RequestFailed"
                /\ StartsWith(h[p].responseText,
                       "Error: API Request failed with status " \o ToString(r.status))

\* a 500 on the second attempt, after one wait
C5_Witness ==
    \E p \in Handlers :
        /\ Returned(p)
        /\ h[p].lastResult.kind = "response"
        /\ h[p].lastResult.status = 500
        /\ h[p].attempt = 1

\* C6: a transport exception at any attempt ends the call with a
\* TransportError outcome whose message excerpt is at most 80 characters; no
\* wait and no attempt follows.
C6_ExceptionIsTerminal ==
    \A p \in Handlers :
        LET r == h[p].lastResult
        IN  r.kind = "exception" =>
                /\ EndedAtLastResult(p)
                /\ h[p].log[Len(h[p].log)] = "exception"
                /\ Outcome(h[p].site) = "TransportError"
                /\ \E n \in 0..80 :
                       h[p].responseText =
                           "Error: " \o SubSeq(r.message, 1, n) \o ", Ceasing."

\* an exception with a long message at the third attempt
C6_Witness ==
    \E p \in Handlers :
        /\ Returned(p)
        /\ h[p].lastResult.kind = "exception"
        /\ Len(h[p].lastResult.message) > 80
        /\ h[p].attempt = 2

\* C7: without a credential a call returns MissingCredential and makes no
\* transport request and no backoff wait.
C7_MissingCredentialNoRequest ==
    ~Truthy(GEMINI_API_KEY) =>
        \A p \in Handlers :
            /\ h[p].pc \notin {"fetch", "backoff"}
            /\ h[p].log = << >>
            /\ h[p].delays = << >>
            /\ Returned(p) =>
                   /\ Outcome(h[p].site) = "MissingCredential"
                   /\ h[p].responseText = MissingKeyReturn

C7_Witness ==
    /\ ~Truthy(GEMINI_API_KEY)
    /\ \E p \in Handlers : Returned(p)

\* C8: a success status with a body whose text is absent or empty ends the
\* call with the NoContent outcome and the text "No comment.", at any attempt.
C8_NoTextIsNoContent ==
    \A p \in Handlers :
        LET r == h[p].lastResult
        IN  r.kind = "response" /\ ResponseOk(r.status) /\ r.json \in NoTextBodies =>
                /\ EndedAtLastResult(p)
                /\ Outcome(h[p].site) = "NoContent"
                /\ h[p].responseText = "No comment."

\* C9: no rejection of a reply leaves the callback unhandled.
C9_NoFaultEscapes == unhandled = "none"

\* whole pairs: a user turn, then the model turn of the same write
WholePairs(s) ==
    /\ Len(s) % 2 = 0
    /\ \A j \in 1..Len(s) :
           IF j % 2 = 1
           THEN s[j].role = "user" /\ s[j + 1].id = s[j].id
           ELSE s[j].role = "model"

\* write i of the key of frame q was made by a frame that read the history
\* q read, after q read it and before q wrote
RacedWith(q, i) ==
    /\ JustAppended(q)
    /\ i > h[q].rdVer
    /\ i < h[q].wrVer
    /\ writes[h[q].message.channelId][i] = h[q].rdVer

\* C10: when two handlers of a key read the same history before either
\* appends, then after both appends the earlier writer's pair is missing, the
\* later writer's is there, and the stored history is the history they read
\* followed by the later writer's pair, trimmed to capacity, in whole pairs.
C10_RaceDropsEarlierPair ==
    \A q \in Handlers :
        \A i \in 1..h[q].wrVer :
            RacedWith(q, i) =>
                LET stored == conversationHistory[h[q].message.channelId]
                    full == h[q].currentHistory \o NewPair(q)
                IN  /\ \A j \in 1..Len(stored) : stored[j].id # i
                    /\ Len(stored) >= 2
                    /\ SubSeq(stored, Len(stored) - 1, Len(stored)) = NewPair(q)
                    /\ stored = SubSeq(full,
                                       Max(Len(full) - 2 * MAX_HISTORY_TURNS, 0) + 1,
                                       Len(full))
                    /\ WholePairs(stored)

\* the race happens, on a history that is not empty
C10_Witness ==
    \E q \in Handlers :
        /\ RacedWith(q, h[q].wrVer - 1)
        /\ h[q].currentHistory # << >>

\* the text starts with the trigger token
HasToken(content) ==
    /\ Len(content) >= Len(BOT_PREFIX)
    /\ SubSeq(content, 1, Len(BOT_PREFIX)) = BOT_PREFIX

\* the text after the trigger token holds nothing but blanks
BlankRemainder(content) ==
    \A i \in Len(BOT_PREFIX) + 1..Len(content) : SubSeq(content, i, i) = " "

\* a message for which a completion call may be made
MayCall(message) ==
    /\ ~message.bot
    /\ HasToken(message.content)
    /\ ~BlankRemainder(message.content)

\* the texts that ask for the usage reply
UsageContents == { c \in Contents : HasToken(c) /\ BlankRemainder(c) }

\* C11: a completion call is made for a message only if its author is no bot,
\* its text starts with the trigger token and the text after the token is not
\* blank; a message of a person that starts with the token and has a blank
\* remainder gets the usage reply, and the step starts no call and no transport
\* request and leaves the history as it is.
C11_CallOnlyWhenTriggered ==
    [][ /\ \A p \in Handlers :
               ~Free(p)' => MayCall(h'[p].message) /\ h'[p].userPrompt # ""
        /\ \A c \in UsageContents, k \in Keys, p \in Handlers :
               Receive(p, k, c, FALSE)
               => /\ "usage" \in pending'
                  /\ h' = h
                  /\ conversationHistory' = conversationHistory
                  /\ writes' = writes ]_vars

\* a usage reply is in flight, next to a stored history and a call under way
C11_Witness ==
    /\ "usage" \in pending
    /\ conversationHistory # << >>
    /\ \E p \in Handlers : h[p].pc = "typing"

\* the stored turns of a key, none for a key without an entry
Stored(k) ==
    IF k \in DOMAIN conversationHistory THEN conversationHistory[k] ELSE << >>

\* frame p has read the history of a key nothing was ever appended to
ReadUnseen(p) == ~Free(p) /\ h[p].rdVer = 0

\* C12: a read of a key that never had a pair appended yields the empty
\* sequence, and the first request for the key carries the new user turn
\* alone; a read creates no entry (a key has one only once a pair was
\* appended) and alters none (as long as nothing is appended after a frame's
\* read, the store holds what the frame read).
C12_UnseenKeyReadsEmpty ==
    /\ \A k \in Keys : k \in DOMAIN conversationHistory <=> ver[k] > 0
    /\ \A p \in Handlers :
           /\ ReadUnseen(p) =>
                  /\ h[p].currentHistory = << >>
                  /\ h[p].payload \in {<< >>, << Turn("user", h[p].userPrompt, 0) >>}
           /\ ~Free(p) /\ h[p].rdVer = ver[h[p].message.channelId] =>
                  Stored(h[p].message.channelId) = h[p].currentHistory

\* the first request for a key is in flight, and the key has no entry
C12_Witness ==
    \E p \in Handlers :
        /\ ReadUnseen(p)
        /\ h[p].pc = "fetch"
        /\ h[p].payload = << Turn("user", h[p].userPrompt, 0) >>
        /\ h[p].message.channelId \notin DOMAIN conversationHistory

\* C13: the delay of the wait that follows attempt n (from 0) is at least 2^n
\* seconds and at most 2^n + 1 seconds, so that within a call the second wait
\* is not shorter than the first.  (delays are in milliseconds; the i-th wait
\* of a call follows attempt i - 1.)
C13_BackoffBounds ==
    \A p \in Handlers :
        /\ Len(h[p].delays) = Waits(h[p].log)
        /\ \A i \in DOMAIN h[p].delays :
               /\ h[p].delays[i] >= 2^(i - 1) * 1000
               /\ h[p].delays[i] <= (2^(i - 1) + 1) * 1000
        /\ Len(h[p].delays) >= 2 => h[p].delays[2] >= h[p].delays[1]

\* the longest first wait, followed by the shortest second wait
C13_Witness ==
    \E p \in Handlers :
        /\ Len(h[p].delays) = 2
        /\ h[p].delays[1] = 1999
        /\ h[p].delays[2] = 2000

\* frame p has handed its reply to message.reply and awaits the delivery
Replying(p) == h[p].pc = "reply"

C15_RetryStateMachine ==
    \A p \in Handlers :
        LET log == h[p].log
        IN  /\ Attempts(log) <= 3
            /\ Waits(log) <= 2
            /\ \A i \in DOMAIN log :
                   /\ log[i] = "fetch" /\ i > 1 => log[i - 1] = "wait"
                   /\ log[i] = "wait" =>
                          /\ log[i - 1] = "429"
                          /\ Attempts(SubSeq(log, 1, i)) < 3
                   /\ IsResult(log[i]) =>
                          /\ log[i - 1] = "fetch"
                          /\ IF i < Len(log)
                             THEN log[i] = "429" /\ log[i + 1] = "wait"
                             ELSE Returned(p)
            /\ h[p].pc = "backoff" => log[Len(log)] = "wait"
            /\ h[p].pc = "fetch" => log[Len(log)] = "fetch"

\* three attempts answered 429, two waits between them, and the call returned
C15_Witness ==
    \E p \in Handlers :
        /\ Returned(p)
        /\ h[p].log = <<"fetch", "429", "wait", "fetch", "429", "wait", "fetch", "429">>

\* the outcomes of a completion call
Outcomes ==
    {"MissingCredential", "Success", "NoContent", "RequestFailed",
     "TransportError", "ExhaustedRetries"}

\* the completion call of frame p awaits the transport or a backoff timer
InCall(p) == h[p].pc \in {"fetch", "backoff"}

\* C16: when every request settles and every timer fires, a call that is
\* under way eventually returns, and a returned call has one outcome of the
\* closed set.  (A process that an unhandled rejection has ended settles
\* nothing any more: the call of such a process need not return.)
C16_CallReturns ==
    /\ [](\A p \in Handlers : Returned(p) => Outcome(h[p].site) \in Outcomes)
    /\ \A p \in Handlers : InCall(p) ~> (Returned(p) \/ ~Running)

\* a call has returned after two waits
C16_Witness ==
    \E p \in Handlers :
        /\ Returned(p)
        /\ Waits(h[p].log) = 2
        /\ Outcome(h[p].site) \in Outcomes

\* the step is the append of frame p for key k, after its call has returned
AppendStep(p, k) ==
    /\ Returned(p)
    /\ h[p].message.channelId = k
    /\ h'[p].pc = "reply"
    /\ writes'[k] = Append(writes[k], h[p].rdVer)

\* C17: the stored history of a key changes only in the append step of a
\* frame whose call has returned for a message of that key: no step of a
\* call, no ignored message, no usage reply and no step for another key
\* changes it.
C17_OnlyAppendChangesHistory ==
    [][ \/ UNCHANGED <<conversationHistory, writes>>
        \/ \A k \in Keys :
               \/ /\ Stored(k)' = Stored(k)
                  /\ (k \in DOMAIN conversationHistory') = (k \in DOMAIN conversationHistory)
                  /\ writes'[k] = writes[k]
               \/ \E p \in Handlers : AppendStep(p, k) ]_vars

\* each of two keys holds the one pair that was appended for it
C17_Witness ==
    \E k1, k2 \in Keys :
        /\ k1 # k2
        /\ ver[k1] = 1 /\ Len(Stored(k1)) = 2
        /\ ver[k2] = 1 /\ Len(Stored(k2)) = 2
        /\ Stored(k1)[1].id = 1 /\ Stored(k2)[1].id = 1

\* C18: when the reply of a message is handed over for delivery its pair is
\* already in the stored history; when the delivery then fails, the stored
\* history stays as it is (the pair is not taken back) and the handler hands
\* over the runtime-error reply and returns.
C18_AppendBeforeReply ==
    [][ \A p \in Handlers :
            /\ ~Replying(p) /\ Replying(p)' =>
                   LET k == h[p].message.channelId
                       n == Len(Stored(k)')
                   IN  /\ n >= 2
                       /\ SubSeq(Stored(k)', n - 1, n) = NewPair(p)'
                       /\ writes'[k][h'[p].wrVer] = h'[p].rdVer
                       /\ h'[p].message = h[p].message
                       /\ h'[p].reply # ""
            /\ ReplyResolve(p, "rejected") =>
                   /\ UNCHANGED <<conversationHistory, writes>>
                   /\ "runtime" \in pending'
                   /\ Free(p)' ]_vars

\* a reply awaits its delivery, its pair being the last of the stored history,
\* and no runtime-error reply has been handed over so far
C18_Witness ==
    \E p \in Handlers :
        /\ JustAppended(p)
        /\ LET s == Stored(h[p].message.channelId)
           IN  Len(s) >= 4 /\ SubSeq(s, Len(s) - 1, Len(s)) = NewPair(p)
        /\ "runtime" \notin pending

IsFailureText(text) == StartsWith(text, "Error: ") \/ text = MissingKeyReturn

\* C20: the one step a frame takes once its call has returned, whatever the
\* outcome, is one append for its key, of the pair of its utterance and the
\* call's returned text, and the frame appends nothing after it; a frame's
\* read takes over the stored history, and its request carries what it read,
\* followed by its utterance: so the text of a failed call is stored as a model
\* turn and is part of the next request for the key.
C20_EveryReturnIsAppended ==
    [][ \A p \in Handlers :
            LET k == h[p].message.channelId
                n == Len(Stored(k)')
            IN  /\ Returned(p) /\ h'[p] # h[p] =>
                       /\ Outcome(h[p].site) \in Outcomes
                       /\ Replying(p)'
                       /\ Len(writes'[k]) = Len(writes[k]) + 1
                       /\ n >= 2
                       /\ Stored(k)'[n - 1].role = "user"
                       /\ Stored(k)'[n - 1].text = h[p].userPrompt
                       /\ Stored(k)'[n].role = "model"
                       /\ Stored(k)'[n].text = h[p].responseText
                /\ Replying(p) /\ h'[p] # h[p] =>
                       Free(p)' /\ UNCHANGED <<conversationHistory, writes>>
                /\ Free(p) /\ ~Free(p)' =>
                       h'[p].currentHistory = Stored(h'[p].message.channelId)
                /\ InCall(p)' =>
                       h'[p].payload =
                           h'[p].currentHistory \o << Turn("user", h'[p].userPrompt, 0) >>
      ]_vars

\* a request is in flight that carries the text of a failed call as a model turn
C20_Witness ==
    \E p \in Handlers :
        /\ h[p].pc = "fetch"
        /\ Len(h[p].payload) >= 3
        /\ \E i \in DOMAIN h[p].payload :
               /\ h[p].payload[i].role = "model"
               /\ IsFailureText(h[p].payload[i].text)

====
